---- MODULE Spec2Model ----
(***************************************************************************)
(* Model of the receipts app's Google Drive client (GoogleDriveService):   *)
(* token cache, find-or-create folder path, upload, listing and the        *)
(* memoised display URL, run against a model of the Drive store.           *)
(*                                                                         *)
(* Strings are sequences of one-character strings, so that split, replace  *)
(* and padStart are computed character by character.  Every `await fetch`  *)
(* of the service is one program position (pc) of a call; an action is the *)
(* arrival of the response together with the synchronous code that runs    *)
(* until the next request is sent.                                         *)
(***************************************************************************)
EXTENDS Integers, Sequences, FiniteSets, TLC

(* ------------------------------ bounds --------------------------------- *)
MaxCalls == 2
MaxSeqCalls == 2
MaxFaults == 1
MaxNameLen == 2
MaxDescLen == 2
MaxUploads == 2
MaxPresses == 2

(* ------------------------------ strings -------------------------------- *)
LowerCase == {"a","b","c","d","e","f","g","h","i","j","k","l","m",
              "n","o","p","q","r","s","t","u","v","w","x","y","z"}
UpperCase == {"A","B","C","D","E","F","G","H","I","J","K","L","M",
              "N","O","P","Q","R","S","T","U","V","W","X","Y","Z"}
DigitChars == {"0","1","2","3","4","5","6","7","8","9"}

DigitChar(d) == <<"0","1","2","3","4","5","6","7","8","9">>[d + 1]

\* Number.prototype.toString() of a non-negative integer
RECURSIVE NumToString(_)
NumToString(n) == IF n < 10 THEN <<DigitChar(n)>>
               ELSE NumToString(n \div 10) \o <<DigitChar(n % 10)>>

\* String.prototype.padStart(width, '0')
RECURSIVE PadStart(_, _)
PadStart(s, width) == IF Len(s) >= width THEN s ELSE PadStart(<<"0">> \o s, width)

\* String.prototype.replace(/[set]/g, by): every character of `set` replaced
ReplaceIn(s, set, by) == [k \in 1..Len(s) |-> IF s[k] \in set THEN by ELSE s[k]]

\* String.prototype.replace(/[^set]/g, by): every character outside `set` replaced
ReplaceNotIn(s, set, by) == [k \in 1..Len(s) |-> IF s[k] \in set THEN s[k] ELSE by]

\* String.prototype.split(sep) for a one-character separator
RECURSIVE Split(_, _)
Split(s, sep) ==
    IF \A k \in 1..Len(s) : s[k] # sep THEN <<s>>
    ELSE LET p == CHOOSE k \in 1..Len(s) : s[k] = sep /\ \A j \in 1..(k - 1) : s[j] # sep
         IN  <<SubSeq(s, 1, p - 1)>> \o Split(SubSeq(s, p + 1, Len(s)), sep)

RECEIPTS == <<"r","e","c","e","i","p","t","s">>
RECEIPT_PLACEHOLDER == <<"R","e","c","e","i","p","t">>
JPG == <<".","j","p","g">>

(* ------------------------------- dates --------------------------------- *)
\* A Date is an instant, held as its UTC fields; tz is the device's offset
\* from UTC in minutes (local time = UTC + tz).
Leap(y) == (y % 4 = 0 /\ y % 100 # 0) \/ y % 400 = 0
DaysIn(y, mo) == IF mo = 2 THEN (IF Leap(y) THEN 29 ELSE 28)
                 ELSE IF mo \in {4, 6, 9, 11} THEN 30 ELSE 31

\* floor division, also for a negative dividend
FloorDiv(a, b) == IF a >= 0 THEN a \div b ELSE -((-a + b - 1) \div b)

\* the local calendar (year, month) of instant d on a device at offset tz
LocalYM(d, tz) ==
    LET mins  == d.h * 60 + d.mi + tz
        shift == FloorDiv(mins, 1440)
        day   == d.d + shift
    IN  IF day < 1
        THEN IF d.mo = 1 THEN [y |-> d.y - 1, mo |-> 12] ELSE [y |-> d.y, mo |-> d.mo - 1]
        ELSE IF day > DaysIn(d.y, d.mo)
        THEN IF d.mo = 12 THEN [y |-> d.y + 1, mo |-> 1] ELSE [y |-> d.y, mo |-> d.mo + 1]
        ELSE [y |-> d.y, mo |-> d.mo]

\* Date.prototype.getFullYear() and getMonth() (0-based), in local time
getFullYear(d, tz) == LocalYM(d, tz).y
getMonth(d, tz) == LocalYM(d, tz).mo - 1

\* Date.prototype.toISOString(): YYYY-MM-DDTHH:mm:ss.sssZ, always UTC
toISOString(d) ==
    PadStart(NumToString(d.y), 4) \o <<"-">> \o PadStart(NumToString(d.mo), 2) \o <<"-">>
    \o PadStart(NumToString(d.d), 2) \o <<"T">> \o PadStart(NumToString(d.h), 2) \o <<":">>
    \o PadStart(NumToString(d.mi), 2) \o <<":">> \o PadStart(NumToString(d.s), 2) \o <<".">>
    \o PadStart(NumToString(d.ms), 3) \o <<"Z">>

(* ---------------------- uploadReceipt's derived names ------------------ *)
UploadYear(d, tz) == NumToString(getFullYear(d, tz))
UploadMonthUnpadded(d, tz) == NumToString(getMonth(d, tz) + 1)

UploadMonth(d, tz) == PadStart(NumToString(getMonth(d, tz) + 1), 2)
UploadTimestampColonsOnly(d) == ReplaceIn(toISOString(d), {":"}, "-")

UploadTimestamp(d) == ReplaceIn(toISOString(d), {":", "."}, "-")
SanitizeKeepsSpaces(desc) ==
    ReplaceNotIn(desc, LowerCase \cup UpperCase \cup DigitChars \cup {" "}, "_")

Sanitize(desc) == ReplaceNotIn(desc, LowerCase \cup UpperCase \cup DigitChars, "_")
UploadFileName(desc, d) == Sanitize(desc) \o <<"_">> \o UploadTimestamp(d) \o JPG
FolderPath(year, month) == RECEIPTS \o <<"/">> \o year \o <<"/">> \o month

(* ---------------------- listReceipts' description ---------------------- *)
OrDefaultNever(s, dflt) == s

\* `x || 'Receipt'`: the empty string is falsy
OrDefault(s, dflt) == IF s = <<>> THEN dflt ELSE s
DescriptionKeepsDashes(fileName) ==
    OrDefault(Split(fileName, "_")[1], RECEIPT_PLACEHOLDER)

DescriptionOfWholeName(fileName) ==
    OrDefault(ReplaceIn(fileName, {"_", "-"}, " "), RECEIPT_PLACEHOLDER)

Description(fileName) ==
    OrDefault(ReplaceIn(Split(fileName, "_")[1], {"_", "-"}, " "), RECEIPT_PLACEHOLDER)

(* ------------------------------ display URL ---------------------------- *)
\* getImageUrlLegacy: `https://drive.google.com/uc?id=${fileId}&export=view`
LegacyUrl(fileId) == <<"https://drive.google.com/uc?id=", fileId, "&export=view">>
\* getHighQualityImageUrl, try branch: `https://drive.google.com/uc?export=view&id=${fileId}`
PublicUrl(fileId) == <<"https://drive.google.com/uc?export=view&id=", fileId>>
FallbackUrlLegacy(fileId) == LegacyUrl(fileId)

\* getHighQualityImageUrl, catch branch: the same template
FallbackUrl(fileId) == <<"https://drive.google.com/uc?export=view&id=", fileId>>

(* ------------------------------- inputs -------------------------------- *)
GAS == <<"G","a","s">>
COFFEE == <<"C","o","f","f","e","e">>
D_GAS == [y |-> 2025, mo |-> 1, d |-> 26, h |-> 15, mi |-> 30, s |-> 45, ms |-> 123]
D_COFFEE == [y |-> 2024, mo |-> 12, d |-> 1, h |-> 9, mi |-> 0, s |-> 0, ms |-> 0]
NoDate == [y |-> 0, mo |-> 1, d |-> 1, h |-> 0, mi |-> 0, s |-> 0, ms |-> 0]
\* uploadReceipt's inputs: does the local file exist, the description, the
\* timestamp, and the device's offset from UTC in minutes at that moment
Upload(exists, desc, date, tz) == [exists |-> exists, desc |-> desc, date |-> date, tz |-> tz]
SeqUploads == {Upload(TRUE, GAS, D_GAS, 0), Upload(TRUE, COFFEE, D_COFFEE, 0),
               Upload(TRUE, <<>>, D_COFFEE, -600), Upload(FALSE, GAS, D_GAS, 0)}
ConcUploads == {Upload(TRUE, GAS, D_GAS, 0)}
FaultUploads == {Upload(TRUE, GAS, D_GAS, 0), Upload(FALSE, GAS, D_GAS, 0)}
\* ensureFolderPath's inputs (year, month)
SeqPaths == {<<UploadYear(D_GAS, 0), UploadMonth(D_GAS, 0)>>,
             <<UploadYear(D_COFFEE, 0), UploadMonth(D_COFFEE, 0)>>}
ConcPaths == {<<UploadYear(D_GAS, 0), UploadMonth(D_GAS, 0)>>}
FaultPaths == {<<UploadYear(D_GAS, 0), UploadMonth(D_GAS, 0)>>}
\* name of a file that somebody else (the Drive web UI, another app) has put
\* into a month folder
EXTERNAL_NAME == <<"a","-","b","_","c">>
Outcomes == {"ok", "errJson", "throw"}

\* all strings of at most n characters of `alphabet`
RECURSIVE Strings(_, _)
Strings(alphabet, n) ==
    IF n = 0 THEN {<<>>}
    ELSE LET S == Strings(alphabet, n - 1)
         IN  S \cup {Append(t, ch) : t \in {x \in S : Len(x) = n - 1}, ch \in alphabet}

\* names a file of a month folder may have: Drive accepts any name
NameChars == {"a", "_", "-"}
Names == Strings(NameChars, MaxNameLen)
\* descriptions the user may type, and the timestamps and device offsets
\* (minutes from UTC) at which a receipt may be captured
OFFICE == <<"O","f","f","i","c","e"," ","&"," ","S","u","p","p","l","i","e","s","!">>
DescChars == {"a", "7", " ", "&"}
WideDescs == Strings(DescChars, MaxDescLen) \cup {GAS, OFFICE}
D_NYE == [y |-> 2024, mo |-> 12, d |-> 31, h |-> 23, mi |-> 30, s |-> 0, ms |-> 0]
D_OCT == [y |-> 2023, mo |-> 10, d |-> 5, h |-> 0, mi |-> 15, s |-> 9, ms |-> 7]
WideDates == {D_GAS, D_COFFEE, D_NYE, D_OCT}
Zones == {-600, 0, 60}
WideUploads == {Upload(TRUE, desc, D_GAS, 0) : desc \in WideDescs}
               \cup {Upload(TRUE, GAS, d, tz) : d \in WideDates, tz \in Zones}
\* the tasks that call into the service at the same time
Callers == {1, 2}

(* ------------------------------- state --------------------------------- *)
VARIABLES
    store,          \* the Drive: sequence of items; an item's id is its index
    publicFiles,    \* ids of the files readable by anyone
    accessToken,    \* per client instance: the token slot (NoToken = null)
    imageUrlCache,  \* per client instance: file id -> URL
    calls,          \* the invocations made so far, each with its position
    issued,         \* number of tokens the token endpoint has issued
    faults,         \* number of failed responses so far
    app,            \* the App component's state (useState values, AsyncStorage)
    tasks           \* the App's handler invocations, each with its closure

appVars == <<app, tasks>>
vars == <<store, publicFiles, accessToken, imageUrlCache, calls, issued, faults, app, tasks>>

NoToken == 0
NoId == 0
EmptyMap == [x \in {} |-> <<>>]

Range(f) == {f[x] : x \in DOMAIN f}
PutAlone(f, k, v) == [x \in {k} |-> v]

\* Map.prototype.set(k, v)
Put(f, k, v) == [x \in DOMAIN f \cup {k} |-> IF x = k THEN v ELSE f[x]]

(* ------------------------------ the store ------------------------------ *)
FolderWithoutParent(name, parent) == [kind |-> "folder", name |-> name, parent |-> NoId]

\* createFolder's metadata: name, folder mime type, parents: [parentId]
Folder(name, parent) == [kind |-> "folder", name |-> name, parent |-> parent]
File(name, parent) == [kind |-> "file", name |-> name, parent |-> parent]

\* q = name='..' and mimeType=folder and trashed=false [and 'parent' in parents]
FolderQuery(st, name, parent) ==
    {k \in 1..Len(st) : /\ st[k].kind = "folder"
                        /\ st[k].name = name
                        /\ (parent # NoId => st[k].parent = parent)}

\* q = 'parent' in parents and mimeType=folder and trashed=false
ChildFolders(st, parent) ==
    {k \in 1..Len(st) : st[k].kind = "folder" /\ st[k].parent = parent}

\* q = 'parent' in parents and mimeType != folder and trashed=false
ChildFiles(st, parent) ==
    {k \in 1..Len(st) : st[k].kind = "file" /\ st[k].parent = parent}

\* orderBy=createdTime desc: ids are given in creation order
RECURSIVE Descending(_)
Descending(S) == IF S = {} THEN <<>>
                 ELSE LET m == CHOOSE x \in S : \A y \in S : y <= x
                      IN  <<m>> \o Descending(S \ {m})

FileIds(st) == {k \in 1..Len(st) : st[k].kind = "file"}
\* folders two levels below a folder without parent: the month folders
MonthFolders(st) ==
    {k \in 1..Len(st) : /\ st[k].kind = "folder" /\ st[k].parent # NoId
                        /\ st[st[k].parent].parent # NoId
                        /\ st[st[st[k].parent].parent].parent = NoId}

(* ------------------------------- calls --------------------------------- *)
Done(c) == c.pc = "done"
Idle == \A i \in DOMAIN calls : Done(calls[i])
Finished == {i \in DOMAIN calls : Done(calls[i])}

NewCall(op, cl) ==
    [op |-> op, client |-> cl, pc |-> "start", ret |-> "", stage |-> "",
     year |-> <<>>, month |-> <<>>, exists |-> FALSE, desc |-> <<>>, date |-> NoDate, tz |-> 0,
     fileId |-> NoId, fileName |-> <<>>,
     rootId |-> NoId, yearId |-> NoId, monthId |-> NoId,
     yearsLeft |-> {}, monthsLeft |-> {}, curYear |-> NoId, curMonth |-> NoId,
     files |-> <<>>, urls |-> EmptyMap, receipts |-> <<>>,
     resId |-> NoId, resPath |-> <<>>, resUrl |-> <<>>, err |-> "",
     log |-> <<>>, bad |-> {}, after |-> Finished, tokenAtStart |-> accessToken[cl],
     cachedAtStart |-> DOMAIN imageUrlCache[cl]]

Req(kind, name, parent) == [kind |-> kind, name |-> name, parent |-> parent]

StageName(c) == IF c.stage = "year" THEN c.year
                ELSE IF c.stage = "month" THEN c.month ELSE RECEIPTS
StageParentNone(c) == NoId

StageParent(c) == IF c.stage = "year" THEN c.rootId
                  ELSE IF c.stage = "month" THEN c.yearId ELSE NoId

\* the request sent when a call arrives at position `label`
ReqOf(c, label) ==
    IF label \in {"find", "create"} THEN <<Req(label, StageName(c), StageParent(c))>>
    ELSE IF label = "upload" THEN <<Req("upload", c.fileName, c.monthId)>>
    ELSE IF label = "listYears" THEN <<Req("listYears", <<>>, c.rootId)>>
    ELSE IF label = "listMonths" THEN <<Req("listMonths", <<>>, c.curYear)>>
    ELSE IF label = "listFiles" THEN <<Req("listFiles", <<>>, c.curMonth)>>
    ELSE IF label = "grant" THEN <<Req("grant", <<>>, c.fileId)>>
    ELSE <<>>

\* the response to the request sent last is `o`
Answered(c, o) == IF o = "ok" THEN c ELSE [c EXCEPT !.bad = @ \cup {Len(c.log)}]

GoTo(c, label) == [c EXCEPT !.pc = label, !.log = @ \o ReqOf(c, label)]
ThrowRetries(c, kind) == [c EXCEPT !.log = Append(@, c.log[Len(c.log)])]

\* `catch (error) { console.error(..); throw error; }` up to the caller
Throw(c, kind) == [c EXCEPT !.pc = "done", !.err = kind]

HasTokenNever(tok) == FALSE

\* getAccessToken(): `if (this.accessToken) return this.accessToken`
HasToken(tok) == tok # NoToken

\* `await this.getAccessToken()` followed by the request of position `label`
WithToken(c, tok, label) ==
    IF HasToken(tok) THEN GoTo(c, label)
    ELSE [c EXCEPT !.pc = "token", !.ret = label, !.log = Append(@, Req("token", <<>>, NoId))]

(* ------------------------------ app state ------------------------------ *)
svcVars == <<store, publicFiles, accessToken, imageUrlCache, calls, issued, faults>>

\* JavaScript's `!s` for a string or null: null and '' are both falsy
Falsy(s) == s = <<>>

IsSpace(ch) == ch = " "
RECURSIVE TrimStart(_)
TrimStart(s) == IF s # <<>> /\ IsSpace(Head(s)) THEN TrimStart(Tail(s)) ELSE s
RECURSIVE TrimEnd(_)
TrimEnd(s) == IF s # <<>> /\ IsSpace(s[Len(s)]) THEN TrimEnd(SubSeq(s, 1, Len(s) - 1)) ELSE s
\* String.prototype.trim
Trim(s) == TrimEnd(TrimStart(s))

\* the ApiKeys the guards read (redirectUri is never tested)
ApiKeys(id, secret, refresh) == [clientId |-> id, clientSecret |-> secret, refreshToken |-> refresh]
NoKeys == ApiKeys(<<>>, <<>>, <<>>)
KEY == <<"k">>
FullKeys == ApiKeys(KEY, KEY, KEY)
\* keys that were saved in Settings before the refresh token was filled in
PartialKeys == ApiKeys(KEY, KEY, <<>>)

NoPhoto == <<>>
PHOTO_URI == <<"f">>
AppDescs == {<<>>, <<" ">>, GAS}

\* the component's state after the first render; `stored` is what AsyncStorage
\* holds under 'googleApiKeys' (NoKeys: nothing usable is stored)
AppStart(stored) ==
    [apiKeys |-> NoKeys, capturedPhoto |-> NoPhoto, receiptDescription |-> <<>>,
     showReceiptDialog |-> FALSE, totalReceipts |-> 0, receipts |-> <<>>,
     selectedReceipt |-> NoId, storedKeys |-> stored, storedStats |-> <<>>,
     startup |-> "keys"]

(* -------------------------- initial state ------------------------------ *)
\* The Drive is empty, or holds what uploadReceipt("Coffee", 2024-12-01T09:00Z)
\* left there in an earlier session, and a file that somebody else added to
\* that month folder afterwards.  Two client instances are constructed
\* (`new GoogleDriveService(config)`): no token, empty URL cache.
PriorStore == <<Folder(RECEIPTS, NoId), Folder(UploadYear(D_COFFEE, 0), 1),
                Folder(UploadMonth(D_COFFEE, 0), 2), File(UploadFileName(COFFEE, D_COFFEE), 3),
                File(EXTERNAL_NAME, 3)>>

Init ==
    /\ store \in {<<>>, PriorStore}
    /\ publicFiles = {}
    /\ accessToken = <<NoToken, NoToken>>
    /\ imageUrlCache = <<EmptyMap, EmptyMap>>
    /\ calls = <<>>
    /\ issued = 0
    /\ faults = 0
    /\ app = AppStart(NoKeys)
    /\ tasks = <<>>

Allowed(o) == o = "ok" \/ faults < MaxFaults
Count(o) == faults' = IF o = "ok" THEN faults ELSE faults + 1
Tok(c) == accessToken[c.client]
Cache(c) == imageUrlCache[c.client]
SetCall(i, c) == calls' = [calls EXCEPT ![i] = c]

(* --------------------------- getAccessToken ---------------------------- *)
StartGetAccessToken(cl) ==
    /\ LET c == NewCall("getAccessToken", cl)
       IN  calls' = Append(calls,
               IF HasToken(accessToken[cl])
               THEN [c EXCEPT !.pc = "done", !.resId = accessToken[cl]]
               ELSE WithToken(c, accessToken[cl], "return"))
    /\ UNCHANGED <<store, publicFiles, accessToken, imageUrlCache, issued, faults>>

StoredAlways(slot, o, tok) == tok
StoredIfEmpty(slot, o, tok) == IF o = "ok" /\ slot = NoToken THEN tok ELSE slot

\* `if (data.access_token) { this.accessToken = data.access_token; .. }`
Stored(slot, o, tok) == IF o = "ok" THEN tok ELSE slot

\* the response of the token endpoint arrives
TokenResponse(i, o) ==
    /\ i \in DOMAIN calls /\ calls[i].pc = "token"
    /\ Allowed(o) /\ Count(o)
    /\ LET c == Answered(calls[i], o) IN
       IF o = "ok"
       THEN /\ issued' = issued + 1
            /\ accessToken' = [accessToken EXCEPT ![c.client] = Stored(@, o, issued + 1)]
            /\ SetCall(i, IF c.ret = "return"
                          THEN [c EXCEPT !.pc = "done", !.resId = issued + 1]
                          ELSE GoTo(c, c.ret))
            /\ UNCHANGED imageUrlCache
       ELSE /\ UNCHANGED issued
            /\ accessToken' = [accessToken EXCEPT ![c.client] = Stored(@, o, issued + 1)]
            /\ IF c.op = "getDisplayUrl"
               THEN /\ imageUrlCache' = [imageUrlCache EXCEPT ![c.client] =
                                             Put(@, c.fileId, FallbackUrl(c.fileId))]
                    /\ SetCall(i, [c EXCEPT !.pc = "done", !.resUrl = FallbackUrl(c.fileId)])
               ELSE /\ SetCall(i, Throw(c, IF o = "throw" THEN "network" ELSE "auth"))
                    /\ UNCHANGED imageUrlCache
    /\ UNCHANGED <<store, publicFiles>>

(* ------------------- findFolder / createFolder / ensureFolderPath ------- *)
StartEnsureFolderPath(cl, year, month) ==
    /\ LET c == [NewCall("ensureFolderPath", cl) EXCEPT
                     !.year = year, !.month = month, !.stage = "root"]
       IN  calls' = Append(calls, WithToken(c, accessToken[cl], "find"))
    /\ UNCHANGED <<store, publicFiles, accessToken, imageUrlCache, issued, faults>>

FindResultsOffByOne(matches) == IF Cardinality(matches) > 1 THEN matches ELSE {NoId}

\* findFolder: `data.files && data.files.length > 0 ? data.files[0].id : null`;
\* Drive gives no order for the matches, so any of them may come first.
FindResults(matches) == IF matches # {} THEN matches ELSE {NoId}

\* uploadReceipt after ensureFolderPath returned; ensureFolderPath's return
AfterEnsure(c, tok) ==
    IF c.op = "uploadReceipt"
    THEN WithToken([c EXCEPT !.fileName = UploadFileName(c.desc, c.date)], tok, "fileInfo")
    ELSE [c EXCEPT !.pc = "done", !.resId = c.monthId]

\* `if (!id) id = await this.createFolder(..)`, then the next stage
StageResolved(c, id, tok) ==
    IF c.stage = "root" THEN WithToken([c EXCEPT !.rootId = id, !.stage = "year"], tok, "find")
    ELSE IF c.stage = "year" THEN WithToken([c EXCEPT !.yearId = id, !.stage = "month"], tok, "find")
    ELSE AfterEnsure([c EXCEPT !.monthId = id], tok)

\* the traversal of listReceipts: next month of this year, else next year,
\* else `return receipts`
NextYearSetFirstOnly(c) ==
    IF c.yearsLeft # {} /\ c.curYear = NoId
    THEN {GoTo([c EXCEPT !.curYear = y, !.yearsLeft = @ \ {y}], "listMonths") : y \in c.yearsLeft}
    ELSE {[c EXCEPT !.pc = "done"]}

NextYearSet(c) ==
    IF c.yearsLeft # {}
    THEN {GoTo([c EXCEPT !.curYear = y, !.yearsLeft = @ \ {y}], "listMonths") : y \in c.yearsLeft}
    ELSE {[c EXCEPT !.pc = "done"]}

NextMonthSetStops(c) ==
    IF c.monthsLeft # {}
    THEN {GoTo([c EXCEPT !.curMonth = m, !.monthsLeft = @ \ {m}], "listFiles") : m \in c.monthsLeft}
    ELSE {[c EXCEPT !.pc = "done"]}

NextMonthSet(c) ==
    IF c.monthsLeft # {}
    THEN {GoTo([c EXCEPT !.curMonth = m, !.monthsLeft = @ \ {m}], "listFiles") : m \in c.monthsLeft}
    ELSE NextYearSet(c)

ListNoRootThrows(c) == Throw(c, "remote")

\* listReceipts: `if (!receiptsId) return []`
ListNoRoot(c) == [c EXCEPT !.pc = "done"]

\* the response of a folder lookup arrives
FindResponse(i, o) ==
    /\ i \in DOMAIN calls /\ calls[i].pc = "find"
    /\ Allowed(o) /\ Count(o)
    /\ LET c == Answered(calls[i], o) IN
       IF o = "throw" THEN SetCall(i, Throw(c, "network"))
       ELSE \E id \in FindResults(IF o = "ok"
                                  THEN FolderQuery(store, StageName(c), StageParent(c))
                                  ELSE {}) :
              IF c.stage = "listRoot"
              THEN IF id = NoId THEN SetCall(i, ListNoRoot(c))
                   ELSE SetCall(i, GoTo([c EXCEPT !.rootId = id], "listYears"))
              ELSE IF id = NoId THEN SetCall(i, WithToken(c, Tok(c), "create"))
                   ELSE SetCall(i, StageResolved(c, id, Tok(c)))
    /\ UNCHANGED <<store, publicFiles, accessToken, imageUrlCache, issued>>

\* the response of a folder creation arrives
CreateResponse(i, o) ==
    /\ i \in DOMAIN calls /\ calls[i].pc = "create"
    /\ Allowed(o) /\ Count(o)
    /\ LET c == Answered(calls[i], o) IN
       IF o = "ok"
       THEN /\ store' = Append(store, Folder(StageName(c), StageParent(c)))
            /\ SetCall(i, StageResolved(c, Len(store) + 1, Tok(c)))
       ELSE /\ SetCall(i, Throw(c, IF o = "throw" THEN "network" ELSE "create"))
            /\ UNCHANGED store
    /\ UNCHANGED <<publicFiles, accessToken, imageUrlCache, issued>>

(* ----------------------- uploadFile / uploadReceipt --------------------- *)
StartUploadReceipt(cl, u) ==
    /\ LET c == [NewCall("uploadReceipt", cl) EXCEPT
                     !.exists = u.exists, !.desc = u.desc, !.date = u.date, !.tz = u.tz,
                     !.year = UploadYear(u.date, u.tz), !.month = UploadMonth(u.date, u.tz),
                     !.stage = "root"]
       IN  calls' = Append(calls, WithToken(c, accessToken[cl], "find"))
    /\ UNCHANGED <<store, publicFiles, accessToken, imageUrlCache, issued, faults>>

\* FileSystem.getInfoAsync answers; the file is read and the upload is sent
FileInfoResponse(i) ==
    /\ i \in DOMAIN calls /\ calls[i].pc = "fileInfo"
    /\ LET c == calls[i] IN
       SetCall(i, IF ~c.exists THEN Throw(c, "file") ELSE GoTo(c, "upload"))
    /\ UNCHANGED <<store, publicFiles, accessToken, imageUrlCache, issued, faults>>

\* the response of the multipart upload arrives
UploadResponse(i, o) ==
    /\ i \in DOMAIN calls /\ calls[i].pc = "upload"
    /\ Allowed(o) /\ Count(o)
    /\ LET c == Answered(calls[i], o) IN
       IF o = "ok"
       THEN /\ store' = Append(store, File(c.fileName, c.monthId))
            /\ SetCall(i, [c EXCEPT !.pc = "done", !.resId = Len(store) + 1,
                                    !.resPath = FolderPath(c.year, c.month)])
       ELSE /\ SetCall(i, Throw(c, IF o = "throw" THEN "network" ELSE "upload"))
            /\ UNCHANGED store
    /\ UNCHANGED <<publicFiles, accessToken, imageUrlCache, issued>>

(* -------------------- getHighQualityImageUrl / makeFilePublic ----------- *)
CacheHitNever(cache, fileId) == FALSE

\* `if (this.imageUrlCache.has(fileId)) return this.imageUrlCache.get(fileId)`
CacheHit(cache, fileId) == fileId \in DOMAIN cache

StartGetDisplayUrl(cl, fileId) ==
    /\ fileId \in FileIds(store)
    /\ LET c == [NewCall("getDisplayUrl", cl) EXCEPT !.fileId = fileId]
       IN  calls' = Append(calls,
               IF CacheHit(imageUrlCache[cl], fileId)
               THEN [c EXCEPT !.pc = "done", !.resUrl = imageUrlCache[cl][fileId]]
               ELSE WithToken(c, accessToken[cl], "grant"))
    /\ UNCHANGED <<store, publicFiles, accessToken, imageUrlCache, issued, faults>>

\* the permission endpoint makes an existing file readable by anyone
Granted(pub, o, fileId) == IF o = "ok" THEN pub \cup {fileId} ELSE pub

\* the response of the permission grant arrives (getHighQualityImageUrl
\* called on its own): whatever it is, the URL is cached and returned
GrantResponse(i, o) ==
    /\ i \in DOMAIN calls /\ calls[i].pc = "grant"
    /\ Allowed(o) /\ Count(o)
    /\ LET c == Answered(calls[i], o) IN
       /\ publicFiles' = Granted(publicFiles, o, c.fileId)
       /\ imageUrlCache' = [imageUrlCache EXCEPT ![c.client] =
                                Put(@, c.fileId, PublicUrl(c.fileId))]
       /\ SetCall(i, [c EXCEPT !.pc = "done", !.resUrl = PublicUrl(c.fileId)])
    /\ UNCHANGED <<store, accessToken, issued>>

(* ------------------------------ listReceipts ---------------------------- *)
StartListReceipts(cl) ==
    /\ LET c == [NewCall("listReceipts", cl) EXCEPT !.stage = "listRoot"]
       IN  calls' = Append(calls, WithToken(c, accessToken[cl], "find"))
    /\ UNCHANGED <<store, publicFiles, accessToken, imageUrlCache, issued, faults>>

\* the response of the year listing arrives
ListYearsResponse(i, o) ==
    /\ i \in DOMAIN calls /\ calls[i].pc = "listYears"
    /\ Allowed(o) /\ Count(o)
    /\ LET c == Answered(calls[i], o)
           years == IF o = "ok" THEN ChildFolders(store, c.rootId) ELSE {}
       IN  IF o = "throw" THEN SetCall(i, Throw(c, "network"))
           ELSE IF years = {} THEN SetCall(i, [c EXCEPT !.pc = "done"])
           ELSE \E c2 \in NextYearSet([c EXCEPT !.yearsLeft = years]) : SetCall(i, c2)
    /\ UNCHANGED <<store, publicFiles, accessToken, imageUrlCache, issued>>

\* the response of the month listing of the current year arrives
ListMonthsResponse(i, o) ==
    /\ i \in DOMAIN calls /\ calls[i].pc = "listMonths"
    /\ Allowed(o) /\ Count(o)
    /\ LET c == Answered(calls[i], o)
           months == IF o = "ok" THEN ChildFolders(store, c.curYear) ELSE {}
       IN  IF o = "throw" THEN SetCall(i, Throw(c, "network"))
           ELSE \E c2 \in NextMonthSet([c EXCEPT !.monthsLeft = months]) : SetCall(i, c2)
    /\ UNCHANGED <<store, publicFiles, accessToken, imageUrlCache, issued>>

\* one element of the result of listReceipts
Receipt(f, url) ==
    [id |-> f.id, name |-> f.name, description |-> Description(f.name), imageUrl |-> url]

ResolutionFetchesToken(cache, tok, fileId) ==
    IF CacheHit(cache, fileId) THEN [st |-> "done", url |-> cache[fileId]]
    ELSE [st |-> "token", url |-> <<>>]

\* the state of one file's getHighQualityImageUrl right after it was started
Resolution(cache, tok, fileId) ==
    IF CacheHit(cache, fileId) THEN [st |-> "done", url |-> cache[fileId]]
    ELSE IF HasToken(tok) THEN [st |-> "grant", url |-> <<>>]
    ELSE [st |-> "token", url |-> <<>>]

\* the requests sent by starting the resolutions of `files`, in order
RECURSIVE FanOutLog(_, _, _)
FanOutLog(files, cache, tok) ==
    IF files = <<>> THEN <<>>
    ELSE LET r == Resolution(cache, tok, Head(files).id)
         IN  (IF r.st = "done" THEN <<>> ELSE <<Req(r.st, <<>>, Head(files).id)>>)
             \o FanOutLog(Tail(files), cache, tok)

\* `await Promise.all(filePromises); receipts.push(...monthReceipts)`, then on
MonthCompleted(c) ==
    NextMonthSet([c EXCEPT !.receipts = @ \o [k \in 1..Len(c.files) |->
                                                Receipt(c.files[k], c.urls[c.files[k].id].url)],
                           !.files = <<>>, !.urls = EmptyMap])

AnyResolved(urls) == \E f \in DOMAIN urls : urls[f].st = "done"

\* `await Promise.all(filePromises)`
AllResolved(urls) == \A f \in DOMAIN urls : urls[f].st = "done"

\* the response of the file listing of the current month arrives; the
\* display URLs of all its files are requested together
ListFilesResponse(i, o) ==
    /\ i \in DOMAIN calls /\ calls[i].pc = "listFiles"
    /\ Allowed(o) /\ Count(o)
    /\ LET c == Answered(calls[i], o)
           ids == Descending(IF o = "ok" THEN ChildFiles(store, c.curMonth) ELSE {})
           files == [k \in 1..Len(ids) |-> [id |-> ids[k], name |-> store[ids[k]].name]]
           urls == [f \in Range(ids) |-> Resolution(Cache(c), Tok(c), f)]
           c1 == [c EXCEPT !.pc = "resolve", !.files = files, !.urls = urls,
                           !.log = @ \o FanOutLog(files, Cache(c), Tok(c))]
       IN  IF o = "throw" THEN SetCall(i, Throw(c, "network"))
           ELSE IF files = <<>> THEN \E c2 \in NextMonthSet(c) : SetCall(i, c2)
           ELSE IF AllResolved(urls) THEN \E c2 \in MonthCompleted(c1) : SetCall(i, c2)
           ELSE SetCall(i, c1)
    /\ UNCHANGED <<store, publicFiles, accessToken, imageUrlCache, issued>>

\* a response arrives for one of the display-URL resolutions in flight
ResolveResponse(i, f, o) ==
    /\ i \in DOMAIN calls /\ calls[i].pc = "resolve"
    /\ f \in DOMAIN calls[i].urls /\ calls[i].urls[f].st # "done"
    /\ Allowed(o) /\ Count(o)
    /\ LET c0 == calls[i]
           sent == CHOOSE k \in 1..Len(c0.log) :
                       /\ c0.log[k].parent = f /\ c0.log[k].kind = c0.urls[f].st
                       /\ \A j \in (k + 1)..Len(c0.log) :
                              ~(c0.log[j].parent = f /\ c0.log[j].kind = c0.urls[f].st)
           c == IF o = "ok" THEN c0 ELSE [c0 EXCEPT !.bad = @ \cup {sent}]
           url == IF c0.urls[f].st = "grant" THEN PublicUrl(f) ELSE FallbackUrl(f)
       IN
       IF c.urls[f].st = "token" /\ o = "ok"
       THEN /\ issued' = issued + 1
            /\ accessToken' = [accessToken EXCEPT ![c.client] = issued + 1]
            /\ SetCall(i, [c EXCEPT !.urls[f].st = "grant",
                                    !.log = Append(@, Req("grant", <<>>, f))])
            /\ UNCHANGED <<publicFiles, imageUrlCache>>
       ELSE /\ publicFiles' = IF c.urls[f].st = "grant"
                              THEN Granted(publicFiles, o, f) ELSE publicFiles
            /\ imageUrlCache' = [imageUrlCache EXCEPT ![c.client] = Put(@, f, url)]
            /\ LET c1 == [c EXCEPT !.urls[f] = [st |-> "done", url |-> url]]
               IN  IF AllResolved(c1.urls)
                   THEN \E c2 \in MonthCompleted(c1) : SetCall(i, c2)
                   ELSE SetCall(i, c1)
            /\ UNCHANGED <<issued, accessToken>>
    /\ UNCHANGED <<store>>

(* ------------------------------ App handlers ---------------------------- *)
\* what a handler created by the current render sees: the state values are
\* constants of that render, whatever is set while the handler is running
Closure ==
    [apiKeys |-> app.apiKeys, capturedPhoto |-> app.capturedPhoto,
     receiptDescription |-> app.receiptDescription,
     totalReceipts |-> app.totalReceipts, receipts |-> app.receipts]

NoArgs == [keys |-> NoKeys, photo |-> NoPhoto, desc |-> <<>>]
Args(keys, photo, desc) == [keys |-> keys, photo |-> photo, desc |-> desc]

Task(kind) ==
    [kind |-> kind, pc |-> "start", seen |-> Closure, call |-> 0, args |-> NoArgs,
     alerts |-> <<>>, opened |-> NoId, loaded |-> FALSE, fetched |-> 0]

Alert(t, title) == [t EXCEPT !.alerts = Append(@, title)]
Return(t) == [t EXCEPT !.pc = "done"]
Running(t) == t.pc # "done"
SetTask(n, t) == tasks' = [tasks EXCEPT ![n] = t]

KeysConfiguredClientIdOnly(keys) == ~Falsy(keys.clientId)

KeysConfigured(keys) ==
    ~(Falsy(keys.clientId) \/ Falsy(keys.clientSecret) \/ Falsy(keys.refreshToken))

DescriptionGiven(seen) == ~(Falsy(seen.capturedPhoto) \/ Falsy(Trim(seen.receiptDescription)))

\* every handler constructs its own GoogleDriveService
NewService == Len(calls) + 1

\* the startup effect, first await: loadApiKeys
LoadApiKeys ==
    /\ app.startup = "keys"
    /\ app' = [app EXCEPT !.apiKeys = IF app.storedKeys = NoKeys THEN @ ELSE app.storedKeys,
                          !.startup = "stats"]
    /\ UNCHANGED <<tasks, svcVars>>

\* the startup effect, second await: loadStats
LoadStats ==
    /\ app.startup = "stats"
    /\ app' = [app EXCEPT !.totalReceipts = IF app.storedStats = <<>> THEN @ ELSE app.storedStats[1],
                          !.startup = "done"]
    /\ UNCHANGED <<tasks, svcVars>>

takePicture ==
    /\ ~app.showReceiptDialog
    /\ app' = [app EXCEPT !.capturedPhoto = PHOTO_URI, !.showReceiptDialog = TRUE]
    /\ UNCHANGED <<tasks, svcVars>>

\* the receipt dialog's TextInput
TypeDescription(d) ==
    /\ app.showReceiptDialog
    /\ app.receiptDescription # d
    /\ app' = [app EXCEPT !.receiptDescription = d]
    /\ UNCHANGED <<tasks, svcVars>>

\* the receipt dialog's Cancel button
CancelReceipt ==
    /\ app.showReceiptDialog
    /\ app' = [app EXCEPT !.showReceiptDialog = FALSE, !.capturedPhoto = NoPhoto,
                          !.receiptDescription = <<>>]
    /\ UNCHANGED <<tasks, svcVars>>

\* Save is pressed: saveReceipt up to its first await
saveReceipt ==
    /\ app.showReceiptDialog
    /\ Len(tasks) < MaxPresses
    /\ LET t == Task("save")
       IN  tasks' = Append(tasks,
                       IF ~DescriptionGiven(t.seen) THEN Return(Alert(t, "Error: description"))
                       ELSE IF ~KeysConfigured(t.seen.apiKeys) THEN Return(Alert(t, "Error: keys"))
                       ELSE [t EXCEPT !.pc = "asset"])
    /\ UNCHANGED <<app, svcVars>>

\* MediaLibrary.createAssetAsync settles; on success the service is
\* constructed and uploadReceipt is called with the closure's values
AssetSaved(n, o) ==
    /\ n \in DOMAIN tasks /\ tasks[n].pc = "asset"
    /\ LET t == tasks[n]
       IN  IF o = "ok"
           THEN /\ StartUploadReceipt(NewService,
                       Upload(TRUE, t.seen.receiptDescription, D_GAS, 0))
                /\ SetTask(n, [t EXCEPT !.pc = "upload", !.call = NewService,
                                        !.args = Args(t.seen.apiKeys, t.seen.capturedPhoto,
                                                      t.seen.receiptDescription)])
           ELSE /\ SetTask(n, Return(Alert(t, "Error: save failed")))
                /\ faults' = faults + 1
                /\ UNCHANGED <<store, publicFiles, accessToken, imageUrlCache, calls, issued>>
    /\ UNCHANGED app

\* updateStats: newStats.totalReceipts, from the stats of the handler's render
updateStats(seen) == seen.totalReceipts + 1

\* uploadReceipt settles: updateStats, the alert and the reset, or the catch
SaveReturns(n) ==
    /\ n \in DOMAIN tasks /\ tasks[n].pc = "upload" /\ Done(calls[tasks[n].call])
    /\ LET t == tasks[n]
       IN  IF calls[t.call].err = ""
           THEN /\ app' = [app EXCEPT !.totalReceipts = updateStats(t.seen),
                                      !.storedStats = <<updateStats(t.seen)>>,
                                      !.capturedPhoto = NoPhoto, !.receiptDescription = <<>>,
                                      !.showReceiptDialog = FALSE]
                /\ SetTask(n, Return(Alert(t, "Success")))
           ELSE /\ SetTask(n, Return(Alert(t, "Error: save failed")))
                /\ UNCHANGED app
    /\ UNCHANGED svcVars

openReceipt(t, receipt) == [t EXCEPT !.opened = receipt.id]

\* the receipts the Last Receipt handler tests after `await loadReceipts()`
LastReceiptSees(t) == t.seen.receipts

\* the Last Receipt handler after its load: the preview or the alert
ShowLast(t) ==
    IF Len(LastReceiptSees(t)) > 0 THEN openReceipt(t, LastReceiptSees(t)[1])
    ELSE Alert(t, "No Receipts")

Selected(t) == IF t.opened = NoId THEN app.selectedReceipt ELSE t.opened

\* the Last Receipt card is pressed
PressLastReceipt ==
    /\ ~app.showReceiptDialog
    /\ Len(tasks) < MaxPresses
    /\ LET t == Task("last")
       IN  IF Len(t.seen.receipts) = 0 /\ KeysConfigured(t.seen.apiKeys)
           THEN /\ StartListReceipts(NewService)
                /\ tasks' = Append(tasks, [t EXCEPT !.pc = "list", !.call = NewService,
                                                    !.args = Args(t.seen.apiKeys, NoPhoto, <<>>)])
                /\ UNCHANGED app
           ELSE /\ tasks' = Append(tasks, Return(ShowLast(t)))
                /\ app' = [app EXCEPT !.selectedReceipt = Selected(ShowLast(t))]
                /\ UNCHANGED svcVars

\* the View Receipts button is pressed: loadReceiptsWithValidation
loadReceiptsWithValidation ==
    /\ ~app.showReceiptDialog
    /\ Len(tasks) < MaxPresses
    /\ LET t == Task("view")
       IN  IF KeysConfigured(t.seen.apiKeys)
           THEN /\ StartListReceipts(NewService)
                /\ tasks' = Append(tasks, [t EXCEPT !.pc = "list", !.call = NewService,
                                                    !.args = Args(t.seen.apiKeys, NoPhoto, <<>>)])
           ELSE /\ tasks' = Append(tasks, Return(Alert(t, "Error: keys")))
                /\ UNCHANGED svcVars
    /\ UNCHANGED app

\* loadReceipts' sort by date, newest first (ids are given in order of creation)
SortNewestFirst(rs) ==
    LET ids == Descending({rs[k].id : k \in DOMAIN rs})
    IN  [k \in DOMAIN ids |-> CHOOSE r \in Range(rs) : r.id = ids[k]]

\* listReceipts settles: the rest of loadReceipts, then the rest of the
\* handler that awaited it
LoadReturns(n) ==
    /\ n \in DOMAIN tasks /\ tasks[n].pc = "list" /\ Done(calls[tasks[n].call])
    /\ LET c == calls[tasks[n].call]
           t == IF c.err = ""
                THEN [tasks[n] EXCEPT !.loaded = TRUE, !.fetched = Len(c.receipts)]
                ELSE Alert(tasks[n], "Error: load failed")
           sorted == IF c.err = "" THEN SortNewestFirst(c.receipts) ELSE app.receipts
       IN  IF t.kind = "last"
           THEN /\ app' = [app EXCEPT !.receipts = sorted, !.selectedReceipt = Selected(ShowLast(t))]
                /\ SetTask(n, Return(ShowLast(t)))
           ELSE /\ app' = [app EXCEPT !.receipts = sorted]
                /\ SetTask(n, Return(t))
    /\ UNCHANGED svcVars

(* --------------------------- specifications ----------------------------- *)
\* the instances are interchangeable: the second one is used only once the
\* first one has been
Clients == {cl \in 1..Len(accessToken) : cl > 1 => \E i \in DOMAIN calls : calls[i].client = cl - 1}

\* each caller makes its calls one after the other, so that at most as many
\* calls are in flight as there are callers
CallerFree == Cardinality(DOMAIN calls \ Finished) < Cardinality(Callers)
CanStart == Len(calls) < MaxCalls /\ CallerFree
CanStartSeq == Len(calls) < MaxSeqCalls /\ Idle

\* the callers run at the same time, on any client; every request succeeds
Next ==
    \/ \E cl \in Clients : CanStart /\ StartGetAccessToken(cl) /\ UNCHANGED appVars
    \/ \E cl \in Clients, p \in ConcPaths : CanStart /\ StartEnsureFolderPath(cl, p[1], p[2]) /\ UNCHANGED appVars
    \/ \E cl \in Clients, u \in ConcUploads : CanStart /\ StartUploadReceipt(cl, u) /\ UNCHANGED appVars
    \/ \E cl \in Clients : CanStart /\ StartListReceipts(cl) /\ UNCHANGED appVars
    \/ \E cl \in Clients, f \in FileIds(store) : CanStart /\ StartGetDisplayUrl(cl, f) /\ UNCHANGED appVars
    \/ \E i \in DOMAIN calls : TokenResponse(i, "ok") /\ UNCHANGED appVars
    \/ \E i \in DOMAIN calls : FindResponse(i, "ok") /\ UNCHANGED appVars
    \/ \E i \in DOMAIN calls : CreateResponse(i, "ok") /\ UNCHANGED appVars
    \/ \E i \in DOMAIN calls : FileInfoResponse(i) /\ UNCHANGED appVars
    \/ \E i \in DOMAIN calls : UploadResponse(i, "ok") /\ UNCHANGED appVars
    \/ \E i \in DOMAIN calls : GrantResponse(i, "ok") /\ UNCHANGED appVars
    \/ \E i \in DOMAIN calls : ListYearsResponse(i, "ok") /\ UNCHANGED appVars
    \/ \E i \in DOMAIN calls : ListMonthsResponse(i, "ok") /\ UNCHANGED appVars
    \/ \E i \in DOMAIN calls : ListFilesResponse(i, "ok") /\ UNCHANGED appVars
    \/ \E i \in DOMAIN calls, f \in FileIds(store) : ResolveResponse(i, f, "ok") /\ UNCHANGED appVars

Spec == Init /\ [][Next]_vars

\* one call at a time, every request succeeding
NextSeq ==
    \/ \E cl \in Clients : CanStartSeq /\ StartGetAccessToken(cl) /\ UNCHANGED appVars
    \/ \E cl \in Clients, p \in SeqPaths : CanStartSeq /\ StartEnsureFolderPath(cl, p[1], p[2]) /\ UNCHANGED appVars
    \/ \E cl \in Clients, u \in SeqUploads : CanStartSeq /\ StartUploadReceipt(cl, u) /\ UNCHANGED appVars
    \/ \E cl \in Clients : CanStartSeq /\ StartListReceipts(cl) /\ UNCHANGED appVars
    \/ \E cl \in Clients, f \in FileIds(store) : CanStartSeq /\ StartGetDisplayUrl(cl, f) /\ UNCHANGED appVars
    \/ \E i \in DOMAIN calls : TokenResponse(i, "ok") /\ UNCHANGED appVars
    \/ \E i \in DOMAIN calls : FindResponse(i, "ok") /\ UNCHANGED appVars
    \/ \E i \in DOMAIN calls : CreateResponse(i, "ok") /\ UNCHANGED appVars
    \/ \E i \in DOMAIN calls : FileInfoResponse(i) /\ UNCHANGED appVars
    \/ \E i \in DOMAIN calls : UploadResponse(i, "ok") /\ UNCHANGED appVars
    \/ \E i \in DOMAIN calls : GrantResponse(i, "ok") /\ UNCHANGED appVars
    \/ \E i \in DOMAIN calls : ListYearsResponse(i, "ok") /\ UNCHANGED appVars
    \/ \E i \in DOMAIN calls : ListMonthsResponse(i, "ok") /\ UNCHANGED appVars
    \/ \E i \in DOMAIN calls : ListFilesResponse(i, "ok") /\ UNCHANGED appVars
    \/ \E i \in DOMAIN calls, f \in FileIds(store) : ResolveResponse(i, f, "ok") /\ UNCHANGED appVars

SpecSeq == Init /\ [][NextSeq]_vars

\* one call at a time on one client, responses may fail
NextFault ==
    \/ CanStartSeq /\ StartGetAccessToken(1) /\ UNCHANGED appVars
    \/ \E p \in FaultPaths : CanStartSeq /\ StartEnsureFolderPath(1, p[1], p[2]) /\ UNCHANGED appVars
    \/ \E u \in FaultUploads : CanStartSeq /\ StartUploadReceipt(1, u) /\ UNCHANGED appVars
    \/ CanStartSeq /\ StartListReceipts(1) /\ UNCHANGED appVars
    \/ \E f \in FileIds(store) : CanStartSeq /\ StartGetDisplayUrl(1, f) /\ UNCHANGED appVars
    \/ \E i \in DOMAIN calls, o \in Outcomes : TokenResponse(i, o) /\ UNCHANGED appVars
    \/ \E i \in DOMAIN calls, o \in Outcomes : FindResponse(i, o) /\ UNCHANGED appVars
    \/ \E i \in DOMAIN calls, o \in Outcomes : CreateResponse(i, o) /\ UNCHANGED appVars
    \/ \E i \in DOMAIN calls : FileInfoResponse(i) /\ UNCHANGED appVars
    \/ \E i \in DOMAIN calls, o \in Outcomes : UploadResponse(i, o) /\ UNCHANGED appVars
    \/ \E i \in DOMAIN calls, o \in Outcomes : GrantResponse(i, o) /\ UNCHANGED appVars
    \/ \E i \in DOMAIN calls, o \in Outcomes : ListYearsResponse(i, o) /\ UNCHANGED appVars
    \/ \E i \in DOMAIN calls, o \in Outcomes : ListMonthsResponse(i, o) /\ UNCHANGED appVars
    \/ \E i \in DOMAIN calls, o \in Outcomes : ListFilesResponse(i, o) /\ UNCHANGED appVars
    \/ \E i \in DOMAIN calls, f \in FileIds(store), o \in Outcomes : ResolveResponse(i, f, o) /\ UNCHANGED appVars

SpecFault == Init /\ [][NextFault]_vars

\* the names and the descriptions at large: the Drive is empty or holds one
\* month folder with one file of any name; one receipt of any description,
\* timestamp and device offset is uploaded, and the receipts are listed once
NamedStore(name) == <<Folder(RECEIPTS, NoId), Folder(UploadYear(D_COFFEE, 0), 1),
                      Folder(UploadMonth(D_COFFEE, 0), 2), File(name, 3)>>

InitNames ==
    /\ store \in {<<>>} \cup {NamedStore(n) : n \in Names}
    /\ publicFiles = {}
    /\ accessToken = <<NoToken, NoToken>>
    /\ imageUrlCache = <<EmptyMap, EmptyMap>>
    /\ calls = <<>>
    /\ issued = 0
    /\ faults = 0
    /\ app = AppStart(NoKeys)
    /\ tasks = <<>>

NextNames ==
    \/ \E u \in WideUploads : calls = <<>> /\ StartUploadReceipt(1, u) /\ UNCHANGED appVars
    \/ Idle /\ (\A i \in DOMAIN calls : calls[i].op # "listReceipts") /\ StartListReceipts(1) /\ UNCHANGED appVars
    \/ \E i \in DOMAIN calls : TokenResponse(i, "ok") /\ UNCHANGED appVars
    \/ \E i \in DOMAIN calls : FindResponse(i, "ok") /\ UNCHANGED appVars
    \/ \E i \in DOMAIN calls : CreateResponse(i, "ok") /\ UNCHANGED appVars
    \/ \E i \in DOMAIN calls : FileInfoResponse(i) /\ UNCHANGED appVars
    \/ \E i \in DOMAIN calls : UploadResponse(i, "ok") /\ UNCHANGED appVars
    \/ \E i \in DOMAIN calls : ListYearsResponse(i, "ok") /\ UNCHANGED appVars
    \/ \E i \in DOMAIN calls : ListMonthsResponse(i, "ok") /\ UNCHANGED appVars
    \/ \E i \in DOMAIN calls : ListFilesResponse(i, "ok") /\ UNCHANGED appVars
    \/ \E i \in DOMAIN calls, f \in FileIds(store) : ResolveResponse(i, f, "ok") /\ UNCHANGED appVars

SpecNames == InitNames /\ [][NextNames]_vars

\* upload, then list: on a Drive that starts empty, receipts are uploaded
\* one after the other, on either client, and then the receipts are listed
InitEmpty ==
    /\ store = <<>>
    /\ publicFiles = {}
    /\ accessToken = <<NoToken, NoToken>>
    /\ imageUrlCache = <<EmptyMap, EmptyMap>>
    /\ calls = <<>>
    /\ issued = 0
    /\ faults = 0
    /\ app = AppStart(NoKeys)
    /\ tasks = <<>>

NotListed == \A i \in DOMAIN calls : calls[i].op # "listReceipts"

NextRoundTrip ==
    \/ \E cl \in Clients, u \in SeqUploads :
          Idle /\ NotListed /\ Len(calls) < MaxUploads /\ StartUploadReceipt(cl, u) /\ UNCHANGED appVars
    \/ \E cl \in Clients : Idle /\ NotListed /\ StartListReceipts(cl) /\ UNCHANGED appVars
    \/ \E i \in DOMAIN calls : TokenResponse(i, "ok") /\ UNCHANGED appVars
    \/ \E i \in DOMAIN calls : FindResponse(i, "ok") /\ UNCHANGED appVars
    \/ \E i \in DOMAIN calls : CreateResponse(i, "ok") /\ UNCHANGED appVars
    \/ \E i \in DOMAIN calls : FileInfoResponse(i) /\ UNCHANGED appVars
    \/ \E i \in DOMAIN calls : UploadResponse(i, "ok") /\ UNCHANGED appVars
    \/ \E i \in DOMAIN calls : ListYearsResponse(i, "ok") /\ UNCHANGED appVars
    \/ \E i \in DOMAIN calls : ListMonthsResponse(i, "ok") /\ UNCHANGED appVars
    \/ \E i \in DOMAIN calls : ListFilesResponse(i, "ok") /\ UNCHANGED appVars
    \/ \E i \in DOMAIN calls, f \in FileIds(store) : ResolveResponse(i, f, "ok") /\ UNCHANGED appVars

SpecRoundTrip == InitEmpty /\ [][NextRoundTrip]_vars

\* the app: the store is empty or holds earlier receipts, AsyncStorage holds
\* no keys, the keys without a refresh token or a full set, and every handler
\* gets a service of its own
InitApp ==
    /\ store \in {<<>>, PriorStore}
    /\ publicFiles = {}
    /\ accessToken = [cl \in 1..MaxPresses |-> NoToken]
    /\ imageUrlCache = [cl \in 1..MaxPresses |-> EmptyMap]
    /\ calls = <<>>
    /\ issued = 0
    /\ faults = 0
    /\ app \in {AppStart(NoKeys), AppStart(PartialKeys), AppStart(FullKeys)}
    /\ tasks = <<>>

NextApp ==
    \/ LoadApiKeys
    \/ LoadStats
    \/ takePicture
    \/ \E d \in AppDescs : TypeDescription(d)
    \/ CancelReceipt
    \/ saveReceipt
    \/ \E n \in DOMAIN tasks, o \in {"ok", "throw"} : Allowed(o) /\ AssetSaved(n, o)
    \/ \E n \in DOMAIN tasks : SaveReturns(n)
    \/ PressLastReceipt
    \/ loadReceiptsWithValidation
    \/ \E n \in DOMAIN tasks : LoadReturns(n)
    \/ \E i \in DOMAIN calls : TokenResponse(i, "ok") /\ UNCHANGED appVars
    \/ \E i \in DOMAIN calls : FindResponse(i, "ok") /\ UNCHANGED appVars
    \/ \E i \in DOMAIN calls : CreateResponse(i, "ok") /\ UNCHANGED appVars
    \/ \E i \in DOMAIN calls : FileInfoResponse(i) /\ UNCHANGED appVars
    \/ \E i \in DOMAIN calls, o \in {"ok", "throw"} : Allowed(o) /\ UploadResponse(i, o) /\ UNCHANGED appVars
    \/ \E i \in DOMAIN calls : ListYearsResponse(i, "ok") /\ UNCHANGED appVars
    \/ \E i \in DOMAIN calls : ListMonthsResponse(i, "ok") /\ UNCHANGED appVars
    \/ \E i \in DOMAIN calls : ListFilesResponse(i, "ok") /\ UNCHANGED appVars
    \/ \E i \in DOMAIN calls, f \in FileIds(store) : ResolveResponse(i, f, "ok") /\ UNCHANGED appVars

SpecApp == InitApp /\ [][NextApp]_vars

(* ------------------------------- claims --------------------------------- *)
Calls(op) == {i \in DOMAIN calls : calls[i].op = op}
Sent(c, kind) == {k \in 1..Len(c.log) : c.log[k].kind = kind}
\* the call ran ensureFolderPath and ensureFolderPath returned
EnsureReturned(c) == c.op \in {"ensureFolderPath", "uploadReceipt"} /\ c.monthId # NoId

\* C1: two ensureFolderPath(year, month) calls with the same arguments, run
\* one after the other with every request succeeding, return the same month
\* folder id; the second sends no create request; and the store then holds
\* exactly one `receipts` folder, one folder of that year under it and one
\* folder of that month under the year.
C1_EnsureFolderPathIdempotent ==
    \A i, j \in DOMAIN calls :
        ( /\ i < j
          /\ EnsureReturned(calls[i]) /\ EnsureReturned(calls[j])
          /\ calls[i].year = calls[j].year /\ calls[i].month = calls[j].month )
        => /\ calls[i].monthId = calls[j].monthId
           /\ Sent(calls[j], "create") = {}
           /\ Cardinality(FolderQuery(store, RECEIPTS, NoId)) = 1
           /\ \A r \in FolderQuery(store, RECEIPTS, NoId) :
                /\ Cardinality(FolderQuery(store, calls[i].year, r)) = 1
                /\ \A y \in FolderQuery(store, calls[i].year, r) :
                     Cardinality(FolderQuery(store, calls[i].month, y)) = 1

\* the first call created the three folders, the second call has returned
C1_Witness ==
    \E i, j \in Calls("ensureFolderPath") :
        /\ i < j /\ Done(calls[i]) /\ Done(calls[j])
        /\ calls[i].year = calls[j].year /\ calls[i].month = calls[j].month
        /\ Cardinality(Sent(calls[i], "create")) = 3
        /\ calls[j].resId = calls[i].resId /\ calls[j].resId # NoId

\* C2: in every reachable state of the store, whatever the interleaving of
\* the ensureFolderPath / uploadReceipt calls, no two folders have the same
\* name and the same parent.
C2_NoDuplicateSiblings ==
    \A a, b \in 1..Len(store) :
        ( /\ a # b
          /\ store[a].kind = "folder" /\ store[b].kind = "folder"
          /\ store[a].name = store[b].name )
        => store[a].parent # store[b].parent

\* C3: uploadReceipt with a local file that does not exist sends no request
\* at all (no token exchange, no lookup, no creation, no upload) and ends
\* with the local-file error.
C3_MissingFileFailsBeforeNetwork ==
    \A i \in Calls("uploadReceipt") :
        ~calls[i].exists => /\ calls[i].log = <<>>
                            /\ Done(calls[i]) => calls[i].err = "file"

\* C4: in ensureFolderPath, a non-success response to a folder lookup or to
\* a folder creation ends the path resolution with an error: the failed
\* request is the last one sent and no folder id is returned.
C4_FindOrCreateFailureAborts ==
    \A i \in DOMAIN calls :
        calls[i].op \in {"ensureFolderPath", "uploadReceipt"} =>
            \A k \in calls[i].bad :
                calls[i].log[k].kind \in {"find", "create"} =>
                    /\ k = Len(calls[i].log)
                    /\ Done(calls[i]) /\ calls[i].err # ""
                    /\ calls[i].monthId = NoId /\ calls[i].resId = NoId

\* C5: listReceipts is all-or-nothing: once one of its lookups or listings
\* got a failed response, the call ends with an error; it never returns a
\* sequence (partial or empty) after that.
C5_ListAllOrNothing ==
    \A i \in Calls("listReceipts") :
        ( /\ Done(calls[i])
          /\ \E k \in calls[i].bad :
                calls[i].log[k].kind \in {"find", "listYears", "listMonths", "listFiles"} )
        => calls[i].err # ""

\* C6: a call that starts while the client's token slot holds a token never
\* sends a token-endpoint request; getAccessToken then returns exactly that
\* token at once, and leaves the slot unchanged.
C6_CachedTokenState ==
    \A i \in DOMAIN calls :
        calls[i].tokenAtStart # NoToken =>
            /\ Sent(calls[i], "token") = {}
            /\ calls[i].op = "getAccessToken" =>
                 /\ Done(calls[i]) /\ calls[i].err = "" /\ calls[i].log = <<>>
                 /\ calls[i].resId = calls[i].tokenAtStart

C6_CachedTokenStep ==
    ( /\ Len(calls') = Len(calls) + 1
      /\ calls'[Len(calls')].op = "getAccessToken"
      /\ accessToken[calls'[Len(calls')].client] # NoToken )
    => accessToken' = accessToken /\ issued' = issued

C6_CachedTokenReturned == [](C6_CachedTokenState) /\ [][C6_CachedTokenStep]_vars

\* getAccessToken has returned the token that was in the slot
C6_Witness ==
    \E i \in Calls("getAccessToken") :
        /\ calls[i].tokenAtStart # NoToken /\ Done(calls[i])
        /\ calls[i].resId = accessToken[calls[i].client]

\* C7: of two getDisplayUrl calls for one file id made one after the other
\* on one client, both return the same URL and together they send at most
\* one permission-grant request; a call that finds the id in the cache sends
\* no request at all.
C7_DisplayUrlMemoised ==
    /\ \A j \in Calls("getDisplayUrl") :
          calls[j].fileId \in calls[j].cachedAtStart =>
              Done(calls[j]) /\ calls[j].log = <<>>
    /\ \A i, j \in Calls("getDisplayUrl") :
          ( /\ i \in calls[j].after /\ Done(calls[j])
            /\ calls[i].client = calls[j].client /\ calls[i].fileId = calls[j].fileId )
          => /\ calls[i].resUrl = calls[j].resUrl
             /\ Cardinality(Sent(calls[i], "grant")) + Cardinality(Sent(calls[j], "grant")) <= 1

\* the first call sent the grant, the second one has returned
C7_Witness ==
    \E i, j \in Calls("getDisplayUrl") :
        /\ i \in calls[j].after /\ Done(calls[j])
        /\ calls[i].client = calls[j].client /\ calls[i].fileId = calls[j].fileId
        /\ Sent(calls[i], "grant") # {} /\ calls[j].resUrl # <<>>

\* C8: getDisplayUrl never fails: whether the grant succeeds, is refused,
\* throws, or the token for it cannot be obtained, it returns the view URL of
\* the file id and caches it; and listReceipts never fails because of a grant.
C8_GrantFailureSwallowed ==
    /\ \A i \in Calls("getDisplayUrl") :
          /\ calls[i].err = ""
          /\ Done(calls[i]) =>
               /\ calls[i].resUrl = <<"https://drive.google.com/uc?export=view&id=", calls[i].fileId>>
               /\ calls[i].fileId \in DOMAIN imageUrlCache[calls[i].client]
               /\ imageUrlCache[calls[i].client][calls[i].fileId] = calls[i].resUrl
    /\ \A i \in Calls("listReceipts") :
          /\ calls[i].err # "" => \E k \in calls[i].bad : calls[i].log[k].kind # "grant"
          /\ \A k \in 1..Len(calls[i].receipts) :
               calls[i].receipts[k].imageUrl =
                   <<"https://drive.google.com/uc?export=view&id=", calls[i].receipts[k].id>>

\* a getDisplayUrl call whose grant or token request failed has returned
C8_Witness ==
    \E i \in Calls("getDisplayUrl") :
        Done(calls[i]) /\ calls[i].bad # {} /\ calls[i].resUrl # <<>>

\* C9: a listReceipts call whose requests all succeed, against a store with
\* no `receipts` folder or whose `receipts` folder has no child folder,
\* returns the empty sequence without error and sends no month listing, no
\* file listing and no permission grant.
C9_ListEmptyStore ==
    LET n == Len(calls) IN
    ( /\ n > 0 /\ calls[n].op = "listReceipts" /\ Done(calls[n]) /\ calls[n].bad = {}
      /\ \/ FolderQuery(store, RECEIPTS, NoId) = {}
         \/ calls[n].rootId # NoId /\ ChildFolders(store, calls[n].rootId) = {} )
    => /\ calls[n].receipts = <<>> /\ calls[n].err = ""
       /\ Sent(calls[n], "listMonths") = {}
       /\ Sent(calls[n], "listFiles") = {}
       /\ Sent(calls[n], "grant") = {}

\* listReceipts found a `receipts` folder without children and returned
C9_Witness ==
    LET n == Len(calls) IN
    /\ n > 0 /\ calls[n].op = "listReceipts" /\ Done(calls[n]) /\ calls[n].bad = {}
    /\ calls[n].rootId # NoId /\ ChildFolders(store, calls[n].rootId) = {}
    /\ calls[n].receipts = <<>> /\ calls[n].err = ""

FirstUnderscore(name) ==
    IF \E k \in 1..Len(name) : name[k] = "_"
    THEN CHOOSE k \in 1..Len(name) : name[k] = "_" /\ \A j \in 1..(k - 1) : name[j] # "_"
    ELSE Len(name) + 1

DescribedBy(desc, name) ==
    LET part == SubSeq(name, 1, FirstUnderscore(name) - 1)
    IN  IF part = <<>> THEN desc = <<"R","e","c","e","i","p","t">>
        ELSE /\ Len(desc) = Len(part)
             /\ \A k \in 1..Len(part) : desc[k] = IF part[k] = "-" THEN " " ELSE part[k]

COFFEE_FILE == <<"C","o","f","f","e","e","_","2","0","2","4","-","1","2","-","0","1",
                 "T","0","9","-","0","0","-","0","0","-","0","0","0","Z",".","j","p","g">>

\* C10: the description of every record returned by listReceipts is the part
\* of the file's name before the first `_` with every `-` replaced by a
\* space, or "Receipt" when that part is empty; a month folder holding the
\* single file "Coffee_2024-12-01T09-00-00-000Z.jpg" yields exactly one
\* record, with description "Coffee".
C10_DescriptionFromName ==
    /\ \A i \in Calls("listReceipts") :
          \A k \in 1..Len(calls[i].receipts) :
              DescribedBy(calls[i].receipts[k].description, calls[i].receipts[k].name)
    /\ LET n == Len(calls) IN
       (n > 0 /\ calls[n].op = "listReceipts" /\ Done(calls[n])) =>
           \A m \in MonthFolders(store) :
               (\E f \in ChildFiles(store, m) :
                    ChildFiles(store, m) = {f} /\ store[f].name = COFFEE_FILE)
               => \E k \in 1..Len(calls[n].receipts) :
                    /\ \A j \in 1..Len(calls[n].receipts) :
                          calls[n].receipts[j].id \in ChildFiles(store, m) <=> j = k
                    /\ calls[n].receipts[k].description = <<"C","o","f","f","e","e">>

\* listReceipts has returned the single record of the Coffee file
C10_Witness ==
    LET n == Len(calls) IN
    /\ n > 0 /\ calls[n].op = "listReceipts" /\ Done(calls[n])
    /\ Len(calls[n].receipts) = 1
    /\ calls[n].receipts[1].name = COFFEE_FILE
    /\ calls[n].receipts[1].description = <<"C","o","f","f","e","e">>
    /\ \E m \in MonthFolders(store) : ChildFiles(store, m) = {calls[n].receipts[1].id}

\* C11: every record returned by listReceipts has a non-empty description,
\* whatever the file's name: a name that is empty or starts with `_` gets
\* the placeholder "Receipt", and a name without `_` a description of the
\* name's length.
C11_DescriptionNonEmpty ==
    \A i \in Calls("listReceipts") :
        \A k \in 1..Len(calls[i].receipts) :
            LET r == calls[i].receipts[k] IN
            /\ Len(r.description) >= 1
            /\ (r.name = <<>> \/ Head(r.name) = "_") =>
                   r.description = <<"R","e","c","e","i","p","t">>
            /\ (\A j \in 1..Len(r.name) : r.name[j] # "_") /\ r.name # <<>> =>
                   Len(r.description) = Len(r.name)

\* listReceipts has returned the record of a file whose name is empty
C11_Witness ==
    \E i \in Calls("listReceipts") :
        /\ Done(calls[i])
        /\ \E k \in 1..Len(calls[i].receipts) :
              /\ calls[i].receipts[k].name = <<>>
              /\ calls[i].receipts[k].description = <<"R","e","c","e","i","p","t">>

\* the decimal digit of n at place p (1, 10, 100, 1000)
Digit(n, p) == <<"0","1","2","3","4","5","6","7","8","9">>[((n \div p) % 10) + 1]
Two(n) == <<Digit(n, 10), Digit(n, 1)>>
Four(n) == <<Digit(n, 1000), Digit(n, 100), Digit(n, 10), Digit(n, 1)>>
\* the ISO timestamp of d with `:` and `.` replaced by `-`
Stamp(d) == Four(d.y) \o <<"-">> \o Two(d.mo) \o <<"-">> \o Two(d.d) \o <<"T">> \o Two(d.h)
            \o <<"-">> \o Two(d.mi) \o <<"-">> \o Two(d.s)
            \o <<"-", Digit(d.ms, 100), Digit(d.ms, 10), Digit(d.ms, 1), "Z">>
AlphaNum == {"a","b","c","d","e","f","g","h","i","j","k","l","m","n","o","p","q","r","s","t",
             "u","v","w","x","y","z","A","B","C","D","E","F","G","H","I","J","K","L","M","N",
             "O","P","Q","R","S","T","U","V","W","X","Y","Z","0","1","2","3","4","5","6","7",
             "8","9"}
\* the uploadReceipt calls that have returned their result
Uploaded == {i \in Calls("uploadReceipt") : Done(calls[i]) /\ calls[i].err = ""}
GAS_FILE == <<"G","a","s","_","2","0","2","5","-","0","1","-","2","6","T","1","5","-","3","0",
              "-","4","5","-","1","2","3","Z",".","j","p","g">>
GAS_PATH == <<"r","e","c","e","i","p","t","s","/","2","0","2","5","/","0","1">>

\* C12: a successful uploadReceipt(description, timestamp) stores the file
\* under sanitize(description) + "_" + T + ".jpg", T being the ISO timestamp
\* with `:` and `.` replaced by `-`, and returns "receipts/<year>/<month>",
\* month in two digits, naming the folders that hold the file (on a device
\* at UTC, the timestamp's year and month); "Gas" at 2025-01-26T15:30:45.123Z
\* gives "receipts/2025/01" and "Gas_2025-01-26T15-30-45-123Z.jpg".
C12_UploadNameAndPath ==
    \A i \in Uploaded :
        LET c == calls[i]
            n == Len(c.desc)
            file == store[c.resId]
            month == store[file.parent]
            year == store[month.parent]
        IN  /\ file.kind = "file"
            /\ Len(file.name) = n + 29
            /\ \A k \in 1..n :
                  file.name[k] = IF c.desc[k] \in AlphaNum THEN c.desc[k] ELSE "_"
            /\ file.name[n + 1] = "_"
            /\ SubSeq(file.name, n + 2, n + 25) = Stamp(c.date)
            /\ SubSeq(file.name, n + 26, n + 29) = <<".","j","p","g">>
            /\ Len(month.name) = 2 /\ Len(year.name) = 4
            /\ \E mo \in 1..12 : month.name = Two(mo)
            /\ store[year.parent].name = <<"r","e","c","e","i","p","t","s">>
            /\ store[year.parent].parent = NoId
            /\ c.resPath = <<"r","e","c","e","i","p","t","s","/">> \o year.name
                              \o <<"/">> \o month.name
            /\ c.tz = 0 => year.name = Four(c.date.y) /\ month.name = Two(c.date.mo)
            /\ (c.desc = <<"G","a","s">> /\ Stamp(c.date) = SubSeq(GAS_FILE, 5, 28)) =>
                   file.name = GAS_FILE /\ c.resPath = GAS_PATH

\* uploadReceipt("Gas", 2025-01-26T15:30:45.123Z) has returned
C12_Witness ==
    \E i \in Uploaded :
        /\ calls[i].desc = <<"G","a","s">> /\ calls[i].date.ms = 123
        /\ calls[i].resPath = GAS_PATH /\ store[calls[i].resId].name = GAS_FILE

OFFICE_DESC == <<"O","f","f","i","c","e"," ","&"," ","S","u","p","p","l","i","e","s","!">>
\* the part of an uploaded file's name before "_<timestamp>.jpg"
SanitizedPart(i) == SubSeq(store[calls[i].resId].name, 1, Len(store[calls[i].resId].name) - 29)
OneForOne(i) ==
    /\ Len(SanitizedPart(i)) = Len(calls[i].desc)
    /\ \A k \in 1..Len(calls[i].desc) :
          IF calls[i].desc[k] \in AlphaNum
          THEN SanitizedPart(i)[k] = calls[i].desc[k]
          ELSE SanitizedPart(i)[k] = "_"

\* C13 as stated: the description "Office & Supplies!" is sanitized to
\* "Office__Supplies_" before the timestamp suffix is appended, every
\* non-alphanumeric character being replaced individually by one `_`.
C13_OfficeSanitizedAsStated ==
    \A i \in Uploaded :
        /\ OneForOne(i)
        /\ calls[i].desc = OFFICE_DESC =>
               SanitizedPart(i) = <<"O","f","f","i","c","e","_","_",
                                    "S","u","p","p","l","i","e","s","_">>

\* C13 amended: "Office & Supplies!" has four non-alphanumeric characters
\* (space, `&`, space, `!`) and is sanitized to "Office___Supplies_"; every
\* non-alphanumeric character is replaced individually by one `_`, so the
\* sanitized text has the length of the description and keeps every ASCII
\* letter and digit in place.
C13_OfficeSanitized ==
    \A i \in Uploaded :
        /\ OneForOne(i)
        /\ calls[i].desc = OFFICE_DESC =>
               SanitizedPart(i) = <<"O","f","f","i","c","e","_","_","_",
                                    "S","u","p","p","l","i","e","s","_">>

\* uploadReceipt("Office & Supplies!") has returned
C13_Witness ==
    \E i \in Uploaded : calls[i].desc = OFFICE_DESC /\ Len(SanitizedPart(i)) = 18

\* no request occurs twice among those one invocation has sent
NoRepeat(c) == \A j, k \in 1..Len(c.log) : j < k => c.log[j] # c.log[k]
\* the failed token exchanges, folder creations and uploads of an invocation
FailedFatal(c) == {k \in c.bad : c.log[k].kind \in {"token", "create", "upload"}}

\* C14 as stated: within one invocation each request is sent at most once,
\* and after a failed token exchange, folder creation or upload the
\* operation ends with an error without sending that request again.
C14_NoRetryEndsWithError ==
    \A i \in DOMAIN calls :
        /\ NoRepeat(calls[i])
        /\ \A k \in FailedFatal(calls[i]) :
              k = Len(calls[i].log) /\ Done(calls[i]) /\ calls[i].err # ""

\* C14 amended: within one invocation each request is sent at most once,
\* and after a failed token exchange, folder creation or upload the
\* operation ends without sending any further request: with an error,
\* except that getDisplayUrl, which swallows a failed token exchange the way
\* it swallows a failed grant, returns the view URL.
C14_NoRetry ==
    \A i \in DOMAIN calls :
        /\ NoRepeat(calls[i])
        /\ \A k \in FailedFatal(calls[i]) :
              /\ k = Len(calls[i].log) /\ Done(calls[i])
              /\ IF calls[i].op = "getDisplayUrl"
                 THEN /\ calls[i].err = ""
                      /\ calls[i].resUrl =
                            <<"https://drive.google.com/uc?export=view&id=", calls[i].fileId>>
                 ELSE calls[i].err # "" /\ calls[i].resId = NoId

\* a folder creation failed and the call has ended with the error
C14_Witness ==
    \E i \in DOMAIN calls : \E k \in calls[i].bad :
        /\ calls[i].log[k].kind = "create" /\ k = Len(calls[i].log)
        /\ Done(calls[i]) /\ calls[i].err # ""

\* the invocation's token exchange got a response without access token
TokenFailed(c) == \E k \in c.bad : c.log[k].kind = "token"

\* C15: when the token endpoint's response carries no access token,
\* getAccessToken fails with an error and returns no token, the slot is
\* still empty afterwards, and the next getAccessToken call on that client
\* finds it empty and sends a token request of its own.
C15_FailedTokenNotCached ==
    \A i \in Calls("getAccessToken") :
        TokenFailed(calls[i]) =>
            /\ Done(calls[i]) /\ calls[i].err # "" /\ calls[i].resId = NoToken
            /\ i = Len(calls) => accessToken[calls[i].client] = NoToken
            /\ \A j \in Calls("getAccessToken") :
                  (j = i + 1 /\ calls[j].client = calls[i].client) =>
                      /\ calls[j].tokenAtStart = NoToken
                      /\ Len(calls[j].log) >= 1 /\ calls[j].log[1].kind = "token"

\* getAccessToken failed on a response without access token, and the next
\* getAccessToken call has sent its own token request and got a token
C15_Witness ==
    \E i, j \in Calls("getAccessToken") :
        /\ j = i + 1 /\ TokenFailed(calls[i]) /\ calls[i].err = "auth"
        /\ Sent(calls[j], "token") # {} /\ Done(calls[j])
        /\ calls[j].resId # NoToken /\ accessToken[calls[j].client] = calls[j].resId

\* the folders that are direct children of folder p, and the files that are
\* direct children of a folder that is a direct child of a child folder of root
SubFolders(p) == {k \in 1..Len(store) : store[k].kind = "folder" /\ store[k].parent = p}
ReceiptFiles(root) ==
    {f \in 1..Len(store) :
        /\ store[f].kind = "file"
        /\ \E y \in SubFolders(root) : store[f].parent \in SubFolders(y)}
\* the last call is a listReceipts that has ended and all of whose requests
\* succeeded (no call has changed the store since)
ListedOk(n) ==
    /\ n = Len(calls) /\ n > 0 /\ calls[n].op = "listReceipts"
    /\ Done(calls[n]) /\ calls[n].bad = {}

\* C16: when every request succeeds, listReceipts returns exactly one record
\* for every file that is a direct child of a folder that is a direct child
\* of a child folder of the `receipts` root, and nothing else; a year folder
\* without month folders and a month folder without files contribute
\* nothing and do not end the traversal.
C16_ListComplete ==
    \A n \in DOMAIN calls :
        (ListedOk(n) /\ calls[n].rootId # NoId) =>
            LET c == calls[n] IN
            /\ c.err = ""
            /\ store[c.rootId].kind = "folder"
            /\ store[c.rootId].name = <<"r","e","c","e","i","p","t","s">>
            /\ {c.receipts[k].id : k \in 1..Len(c.receipts)} = ReceiptFiles(c.rootId)
            /\ Len(c.receipts) = Cardinality(ReceiptFiles(c.rootId))
            /\ \A k \in 1..Len(c.receipts) : c.receipts[k].name = store[c.receipts[k].id].name

\* listReceipts has returned the records of two years' files from a store
\* that also has a year folder without month folders or a month folder
\* without files
C16_Witness ==
    \E n \in DOMAIN calls :
        /\ ListedOk(n) /\ calls[n].rootId # NoId
        /\ Len(calls[n].receipts) >= 2
        /\ \/ \E y \in SubFolders(calls[n].rootId) : SubFolders(y) = {}
           \/ \E y \in SubFolders(calls[n].rootId) : \E m \in SubFolders(y) :
                 \A f \in 1..Len(store) : store[f].parent # m

IsFind(r) == r.kind = "find"
\* the folder lookups an invocation has sent, in the order of sending
Lookups(c) == SelectSeq(c.log, IsFind)
IsFolderNamed(id, name, parent) ==
    /\ id \in 1..Len(store) /\ store[id].kind = "folder"
    /\ store[id].name = name /\ store[id].parent = parent

\* C17: an uploadReceipt on a client without token first exchanges the
\* token, and sends the first lookup only when that is done; it resolves
\* `receipts` (no parent), the year (parent: the receipts id) and the month
\* (parent: the year id) in this order, a create following the lookup of the
\* same name and parent; and it sends the upload last, once the month
\* folder's id is known, with that id as the file's only parent.
C17_UploadOrder ==
    \A i \in Calls("uploadReceipt") :
        LET c == calls[i] IN
        c.tokenAtStart = NoToken =>
            /\ c.log[1].kind = "token" /\ Sent(c, "token") = {1}
            /\ c.pc = "token" => Len(c.log) = 1
            /\ Len(Lookups(c)) <= 3
            /\ Len(Lookups(c)) >= 1 =>
                  Lookups(c)[1].name = <<"r","e","c","e","i","p","t","s">>
                  /\ Lookups(c)[1].parent = NoId
            /\ Len(Lookups(c)) >= 2 =>
                  /\ Lookups(c)[2].name = Four(getFullYear(c.date, c.tz))
                  /\ IsFolderNamed(Lookups(c)[2].parent, <<"r","e","c","e","i","p","t","s">>, NoId)
            /\ Len(Lookups(c)) >= 3 =>
                  /\ Lookups(c)[3].name = Two(getMonth(c.date, c.tz) + 1)
                  /\ IsFolderNamed(Lookups(c)[3].parent, Lookups(c)[2].name, Lookups(c)[2].parent)
            /\ \A k \in Sent(c, "create") :
                  /\ c.log[k - 1].kind = "find"
                  /\ c.log[k - 1].name = c.log[k].name /\ c.log[k - 1].parent = c.log[k].parent
            /\ \A k \in Sent(c, "upload") :
                  /\ k = Len(c.log) /\ Len(Lookups(c)) = 3
                  /\ IsFolderNamed(c.log[k].parent, Lookups(c)[3].name, Lookups(c)[3].parent)
                  /\ c.resId # NoId => store[c.resId].parent = c.log[k].parent

\* an uploadReceipt on a fresh client has created the three folders and
\* stored the file
C17_Witness ==
    \E i \in Uploaded :
        /\ calls[i].tokenAtStart = NoToken
        /\ Cardinality(Sent(calls[i], "create")) = 3
        /\ store[calls[i].resId].kind = "file"

\* C18: a listReceipts call on a client without token sends exactly one
\* token request, the first of its requests, and sends nothing else until
\* that exchange is done; the display-URL resolutions of a month's files
\* never wait for a token exchange of their own.
C18_ListOneTokenRequest ==
    \A i \in Calls("listReceipts") :
        LET c == calls[i] IN
        c.tokenAtStart = NoToken =>
            /\ Sent(c, "token") = {1}
            /\ c.pc = "token" => Len(c.log) = 1
            /\ \A f \in DOMAIN c.urls : c.urls[f].st # "token"

\* a listReceipts call on a fresh client has resolved the display URLs of
\* two files by permission grants and returned
C18_Witness ==
    \E i \in Calls("listReceipts") :
        /\ calls[i].tokenAtStart = NoToken /\ Done(calls[i])
        /\ Cardinality(Sent(calls[i], "grant")) >= 2
        /\ Len(calls[i].receipts) >= 2

\* the resolutions of a listReceipts call that have not completed
Pending(c) == {f \in DOMAIN c.urls : c.urls[f].st # "done"}
\* the requests sent after the last file listing
SinceListFiles(c) ==
    LET k == CHOOSE x \in Sent(c, "listFiles") : \A y \in Sent(c, "listFiles") : y <= x
    IN  SubSeq(c.log, k, Len(c.log))

C19_TraversalState ==
    \A i \in Calls("listReceipts") :
        LET c == calls[i] IN
        /\ c.pc # "resolve" => Pending(c) = {}
        /\ c.pc = "resolve" =>
              /\ Head(SinceListFiles(c)).parent = c.curMonth
              /\ \A f \in DOMAIN c.urls : store[f].parent = c.curMonth
              /\ \A k \in 2..Len(SinceListFiles(c)) : SinceListFiles(c)[k].kind = "grant"
              /\ {SinceListFiles(c)[k].parent : k \in 2..Len(SinceListFiles(c))}
                     = DOMAIN c.urls \ c.cachedAtStart
        /\ \A j, k \in 1..Len(c.receipts) :
              (j < k /\ store[c.receipts[j].id].parent = store[c.receipts[k].id].parent) =>
                  /\ c.receipts[j].id > c.receipts[k].id
                  /\ \A l \in j..k :
                        store[c.receipts[l].id].parent = store[c.receipts[j].id].parent

C19_TraversalStep ==
    \A i \in DOMAIN calls :
        (calls[i].op = "listReceipts" /\ calls[i].pc = "resolve") =>
            /\ calls'[i].pc = "resolve" => calls'[i].log = calls[i].log
            /\ calls'[i].pc # "resolve" => Cardinality(Pending(calls[i])) <= 1

\* C19: in listReceipts the display-URL resolutions of all files of a month
\* are started together, right after the month's file listing; no further
\* listing is requested while one of them is pending; the next listing is
\* sent by the step that completes the last of them; and in the result the
\* records of one month are contiguous, the most recently created first.
C19_MonthByMonth == [](C19_TraversalState) /\ [][C19_TraversalStep]_vars

\* listReceipts has returned three records of two months, two of them
\* resolved together
C19_Witness ==
    \E i \in Calls("listReceipts") :
        /\ Done(calls[i]) /\ Len(calls[i].receipts) = 3
        /\ Cardinality({store[calls[i].receipts[k].id].parent : k \in 1..3}) = 2
        /\ Cardinality(Sent(calls[i], "grant")) = 3

\* two getAccessToken calls on one client that both found the slot empty,
\* the later one started before the earlier one had returned
Racing(i, j) ==
    /\ i < j /\ calls[i].op = "getAccessToken" /\ calls[j].op = "getAccessToken"
    /\ calls[i].client = calls[j].client
    /\ calls[i].tokenAtStart = NoToken /\ calls[j].tokenAtStart = NoToken
    /\ i \notin calls[j].after

\* C20: two getAccessToken calls made concurrently on one client whose slot
\* is empty both pass the cache check and both send a token request; when
\* both have returned, that client has made two successful exchanges: the
\* callers hold different tokens and the slot holds that of the exchange
\* that completed last.
C20_ConcurrentTokenExchanges ==
    \A i, j \in DOMAIN calls :
        Racing(i, j) =>
            /\ Sent(calls[i], "token") = {1} /\ Sent(calls[j], "token") = {1}
            /\ (Done(calls[i]) /\ Done(calls[j])) =>
                  /\ calls[i].resId # NoToken /\ calls[j].resId # NoToken
                  /\ calls[i].resId # calls[j].resId
                  /\ issued >= 2
                  /\ accessToken[calls[i].client] >= calls[i].resId
                  /\ accessToken[calls[i].client] >= calls[j].resId

\* one client has made two successful token exchanges
C20_Witness ==
    \E i, j \in DOMAIN calls :
        /\ Racing(i, j) /\ Done(calls[i]) /\ Done(calls[j])
        /\ calls[i].resId # calls[j].resId /\ issued = 2
        /\ accessToken[calls[i].client] \in {calls[i].resId, calls[j].resId}

\* C21: a client is constructed without any request and without token; and
\* once the token slot of a client holds a token, no step clears it or
\* replaces it with another value, also when several callers use the
\* client at once.
C21_TokenPersists ==
    [][\A cl \in DOMAIN accessToken :
          /\ accessToken[cl] # NoToken => accessToken'[cl] = accessToken[cl]
          /\ (\A i \in DOMAIN calls : calls[i].client # cl) =>
                 accessToken[cl] = NoToken]_vars

C22_CacheValues ==
    \A cl \in DOMAIN imageUrlCache : \A f \in DOMAIN imageUrlCache[cl] :
        imageUrlCache[cl][f] = <<"https://drive.google.com/uc?export=view&id=", f>>

C22_CacheStep ==
    \A cl \in DOMAIN imageUrlCache : \A f \in DOMAIN imageUrlCache[cl] :
        f \in DOMAIN imageUrlCache'[cl] /\ imageUrlCache'[cl][f] = imageUrlCache[cl][f]

\* C22: the image-URL cache of a client is append-only: an entry, once
\* there, is never removed or changed by any later step, whether the
\* getDisplayUrl / listReceipts calls run one after the other or at the same
\* time; and every cached value is the view URL of its key.
C22_CacheAppendOnly == [](C22_CacheValues) /\ [][C22_CacheStep]_vars

\* two overlapping getDisplayUrl calls for one file on one client have both
\* sent a grant and written the cache
C22_Witness ==
    \E i, j \in Calls("getDisplayUrl") :
        /\ i < j /\ i \notin calls[j].after
        /\ calls[i].client = calls[j].client /\ calls[i].fileId = calls[j].fileId
        /\ Sent(calls[i], "grant") # {} /\ Sent(calls[j], "grant") # {}
        /\ Done(calls[i]) /\ Done(calls[j])
        /\ calls[i].fileId \in DOMAIN imageUrlCache[calls[i].client]

IsRoot(k) == store[k].kind = "folder" /\ store[k].parent = NoId
IsYear(k) == store[k].kind = "folder" /\ store[k].parent # NoId /\ IsRoot(store[k].parent)
IsMonth(k) == store[k].kind = "folder" /\ store[k].parent # NoId /\ IsYear(store[k].parent)

\* C23: every folder in the store is a root named `receipts`, a year folder
\* whose parent is such a root, or a month folder whose parent is a year
\* folder and whose name is a two-digit month (for the months uploadReceipt
\* asks for: the zero-padded month of its timestamp); every file that
\* uploadReceipt stored has as its parent the month folder the path
\* resolution of that upload returned.
C23_Hierarchy ==
    /\ \A k \in 1..Len(store) :
          store[k].kind = "folder" =>
              /\ IsRoot(k) \/ IsYear(k) \/ IsMonth(k)
              /\ IsRoot(k) => store[k].name = <<"r","e","c","e","i","p","t","s">>
              /\ IsYear(k) => store[store[k].parent].name = <<"r","e","c","e","i","p","t","s">>
              /\ IsMonth(k) => \E mo \in 1..12 : store[k].name = Two(mo)
    /\ \A i \in Calls("uploadReceipt") :
          /\ calls[i].monthId # NoId =>
                IsMonth(calls[i].monthId)
                /\ store[calls[i].monthId].name = Two(getMonth(calls[i].date, calls[i].tz) + 1)
          /\ calls[i].resId # NoId =>
                /\ store[calls[i].resId].kind = "file"
                /\ store[calls[i].resId].parent = calls[i].monthId

\* an uploadReceipt has created receipts, the year and the month folder
\* and stored its file in the month folder
C23_Witness ==
    \E i \in Uploaded :
        /\ Cardinality(Sent(calls[i], "create")) = 3
        /\ IsMonth(store[calls[i].resId].parent)
        /\ Cardinality({k \in 1..Len(store) : IsRoot(k)}) = 1

\* C24: on a store that starts empty, with every request succeeding, a
\* listReceipts that follows any sequence of uploadReceipt calls run one
\* after the other (on one or several client instances) returns exactly one
\* record per successful upload: the ids of its records are the fileIds
\* the uploads returned.
C24_UploadThenList ==
    \A n \in DOMAIN calls :
        ListedOk(n) =>
            /\ calls[n].err = ""
            /\ Len(calls[n].receipts) = Cardinality(Uploaded)
            /\ {calls[n].receipts[k].id : k \in 1..Len(calls[n].receipts)}
                   = {calls[i].resId : i \in Uploaded}
            /\ \A i, j \in Uploaded : i # j => calls[i].resId # calls[j].resId

\* two receipts were uploaded into different years, on different clients,
\* and listReceipts has returned the two records
C24_Witness ==
    \E n \in DOMAIN calls :
        /\ ListedOk(n) /\ Len(calls[n].receipts) = 2
        /\ \E i, j \in Uploaded :
              /\ calls[i].year # calls[j].year /\ calls[i].client # calls[j].client
              /\ {calls[n].receipts[1].id, calls[n].receipts[2].id}
                     = {calls[i].resId, calls[j].resId}

\* C25: the record listReceipts returns for an uploaded file carries the
\* description given to uploadReceipt when that description is non-empty
\* and made of ASCII letters and digits only, and "Receipt" when it is empty.
C25_DescriptionRoundTrip ==
    \A n \in Calls("listReceipts") : \A i \in Uploaded :
        \A k \in 1..Len(calls[n].receipts) :
            calls[n].receipts[k].id = calls[i].resId =>
                /\ (calls[i].desc # <<>> /\ \A x \in 1..Len(calls[i].desc) :
                                                calls[i].desc[x] \in AlphaNum) =>
                       calls[n].receipts[k].description = calls[i].desc
                /\ calls[i].desc = <<>> =>
                       calls[n].receipts[k].description = <<"R","e","c","e","i","p","t">>

\* a receipt uploaded with description "a7" has been listed with it
C25_Witness ==
    \E n \in Calls("listReceipts") : \E i \in Uploaded :
        /\ Done(calls[n]) /\ calls[i].desc = <<"a", "7">>
        /\ \E k \in 1..Len(calls[n].receipts) :
              /\ calls[n].receipts[k].id = calls[i].resId
              /\ calls[n].receipts[k].description = <<"a", "7">>

\* the timestamp part of an uploaded file's name: what follows the
\* sanitized description and its `_`
StampPart(i) ==
    SubSeq(store[calls[i].resId].name, Len(calls[i].desc) + 2, Len(calls[i].desc) + 25)

\* C26: for every timestamp and every offset of the device from UTC, the
\* names of the year and month folders that hold an uploaded receipt, and
\* the year and month of the returned folderPath, are the year and month
\* that stand in the timestamp part of the file's name.
C26_FolderMatchesTimestamp ==
    \A i \in Uploaded :
        LET month == store[store[calls[i].resId].parent]
            year == store[month.parent]
        IN  /\ year.name = SubSeq(StampPart(i), 1, 4)
            /\ month.name = SubSeq(StampPart(i), 6, 7)
            /\ calls[i].resPath = <<"r","e","c","e","i","p","t","s","/">>
                    \o SubSeq(StampPart(i), 1, 4) \o <<"/">> \o SubSeq(StampPart(i), 6, 7)

\* call i resolved a folder path and failed in the creation of the year or
\* of the month folder, its only failed request; call j, the next one,
\* resolved the same path without any failure; no other call saw a failure
FailedThenRetried(i, j) ==
    /\ j = i + 1
    /\ calls[i].op \in {"ensureFolderPath", "uploadReceipt"}
    /\ calls[j].op \in {"ensureFolderPath", "uploadReceipt"}
    /\ calls[i].year = calls[j].year /\ calls[i].month = calls[j].month
    /\ calls[i].bad = {Len(calls[i].log)}
    /\ calls[i].log[Len(calls[i].log)].kind = "create"
    /\ calls[i].log[Len(calls[i].log)].parent # NoId
    /\ \A k \in DOMAIN calls : k # i => calls[k].bad = {}
    /\ calls[j].monthId # NoId

\* C27: when ensureFolderPath fails in the creation of the year or month
\* folder, the folders it created before stay in the store, and the next
\* ensureFolderPath with the same arguments, all of whose requests succeed,
\* finds them instead of creating them again: afterwards there is exactly
\* one `receipts` folder, one folder of the year in it and one folder of the
\* month in that.
C27_NoRollback ==
    \A i, j \in DOMAIN calls :
        FailedThenRetried(i, j) =>
            /\ calls[i].err # "" /\ calls[i].monthId = NoId
            /\ \A k \in Sent(calls[i], "create") \ calls[i].bad :
                  /\ FolderQuery(store, calls[i].log[k].name, calls[i].log[k].parent) # {}
                  /\ \A l \in Sent(calls[j], "create") : calls[j].log[l] # calls[i].log[k]
            /\ Cardinality(FolderQuery(store, RECEIPTS, NoId)) = 1
            /\ \A r \in FolderQuery(store, RECEIPTS, NoId) :
                  /\ Cardinality(FolderQuery(store, calls[j].year, r)) = 1
                  /\ \A y \in FolderQuery(store, calls[j].year, r) :
                        /\ Cardinality(FolderQuery(store, calls[j].month, y)) = 1
                        /\ FolderQuery(store, calls[j].month, y) = {calls[j].monthId}

\* the first call created `receipts` and the year and failed to create the
\* month; the second call created the month only
C27_Witness ==
    \E i, j \in DOMAIN calls :
        /\ FailedThenRetried(i, j)
        /\ Cardinality(Sent(calls[i], "create")) = 3
        /\ Cardinality(Sent(calls[j], "create")) = 1
        /\ Done(calls[j])

\* the handler invocations of one kind, and those that have returned
Invocations(kind) == {n \in DOMAIN tasks : tasks[n].kind = kind}
Returned == {n \in DOMAIN tasks : ~Running(tasks[n])}

\* C28: once every saveReceipt invocation has returned, also when invocations
\* overlapped because Save was pressed again during an upload,
\* stats.totalReceipts (0 at the start) equals the number of uploadReceipt
\* calls that succeeded.
C28_StatsCountUploads ==
    Returned = DOMAIN tasks => app.totalReceipts = Cardinality(Uploaded)

\* the arguments hold a photo, a description with a character that is not
\* white space, and the three keys
HasPhoto(args) == args.photo # NoPhoto
HasDescription(args) == \E k \in DOMAIN args.desc : args.desc[k] # " "
HasKeys(args) ==
    /\ args.keys.clientId # <<>>
    /\ args.keys.clientSecret # <<>>
    /\ args.keys.refreshToken # <<>>

MostRecent(rs) == CHOOSE id \in {rs[k].id : k \in DOMAIN rs} :
                      \A k \in DOMAIN rs : rs[k].id <= id

\* a Last Receipt press, made with no receipts loaded, whose load returned
\* at least one receipt
LoadedSome(t) == t.kind = "last" /\ Len(t.seen.receipts) = 0 /\ t.loaded /\ t.fetched > 0

\* C30: a Last Receipt press with no receipts loaded whose load returns at
\* least one receipt opens the preview of the most recent one, and the
\* 'No Receipts' alert is shown only when the load returned no receipt.
C30_LastReceiptOpens ==
    \A n \in Invocations("last") \cap Returned :
        /\ LoadedSome(tasks[n]) =>
              tasks[n].opened = MostRecent(calls[tasks[n].call].receipts)
        /\ "No Receipts" \in Range(tasks[n].alerts) => ~LoadedSome(tasks[n])

====
